---------------------------- MODULE Spec2Model ----------------------------
(***************************************************************************)
(* tfsnippet/distributions/utils.py: validate_group_ndims and              *)
(* reduce_group_ndims, the graph they build and its later execution.       *)
(*                                                                         *)
(* A call builds graph nodes (each recorded with the name-scope stack that *)
(* was open when it was inserted), invokes the caller's reduction          *)
(* operation, and returns a tensor expression; Run executes the returned   *)
(* expression with a runtime value fed to the symbolic count.              *)
(***************************************************************************)
EXTENDS Integers, Sequences, FiniteSets

VARIABLES operation, tensor, group_ndims, name,  \* the call's arguments
          api,      \* which function was called
          pc,       \* "start" | "returned" | "raised" | "ran" | "run_failed"
          graph,    \* the ambient graph: the nodes inserted, in order
          opCalls,  \* the invocations of `operation`, in order
          ret,      \* the call's return value
          exc,      \* the exception the call raised
          feed,     \* the runtime value fed to the symbolic count
          out       \* what executing the returned tensor gave

vars == <<operation, tensor, group_ndims, name, api, pc, graph, opCalls,
          ret, exc, feed, out>>

(***************************************************************************)
(* Bounds of the model.                                                    *)
(***************************************************************************)
MaxG == 3       \* counts (concrete or fed at run time) range up to MaxG
MaxNeg == 2     \* ... and down to -MaxNeg

CountRange == (0 - MaxNeg)..MaxG

(***************************************************************************)
(* Values.                                                                 *)
(***************************************************************************)
None == "<None>"
NoError == "none"
InvalidArgument == "InvalidArgument"
RuntimeAssertionViolated == "RuntimeAssertionViolated"
InvalidAxis == "InvalidAxis"
NoValue == [kind |-> "none"]

\* A concrete count is the number floor + frac/2 (frac = 1: non-integral).
ConcreteCount(n, f) == [kind |-> "concrete", floor |-> n, frac |-> f]
\* A symbolic count is a graph tensor of a declared dtype; `asserted` says
\* that evaluating it first runs the non-negativity assertion.
SymbolicCount(d, a) == [kind |-> "symbolic", dtype |-> d, asserted |-> a]

Dtypes == {"int32", "int64", "float32"}
IntegerDtypes == {"int32", "int64"}

Counts == {ConcreteCount(n, f) : n \in CountRange, f \in {0, 1}}
            \cup {SymbolicCount(d, FALSE) : d \in Dtypes}

\* Arrays: a shape and the data in row-major order.
Array(s, d) == [shape |-> s, data |-> d]
Arrays == { Array(<<2>>, <<1, 2>>),
            Array(<<2, 2>>, <<1, 2, 3, 4>>),
            Array(<<2, 1, 2>>, <<2, 3, 1, 4>>) }
Operations == {"reduce_sum", "reduce_prod"}
Names == {None, "outer"}

\* Tensor expressions.
Const(n) == [kind |-> "const", n |-> n]
Neg(x) == [kind |-> "neg", x |-> x]
Greater(x, y) == [kind |-> "greater", x |-> x, y |-> y]
Range(lo, hi) == [kind |-> "range", lo |-> lo, hi |-> hi]
Input(a) == [kind |-> "input", arr |-> a]
OpNode(fn, x, axes) == [kind |-> "op", fn |-> fn, x |-> x, axes |-> axes]
Cond(p, a, b) == [kind |-> "cond", pred |-> p, then |-> a, else |-> b]

\* Graph nodes.
Node(op, scope) == [op |-> op, scope |-> scope]
Emit(g, scope, ops) == g \o [i \in 1..Len(ops) |-> Node(ops[i], scope)]

(***************************************************************************)
(* tfsnippet.utils: is_tensor_object and TensorArgValidator.               *)
(***************************************************************************)
\* Anything that is not a plain Python number is a graph value.
is_tensor_object(x) == x.kind # "concrete"

Raise(err, g) == [raised |-> err, value |-> NoValue, graph |-> g]
Return(v, g) == [raised |-> NoError, value |-> v, graph |-> g]

require_int32(value, scope, g) ==
    IF is_tensor_object(value)
    THEN IF value.dtype \in IntegerDtypes
         THEN Return(value, g)
         ELSE Raise(InvalidArgument, g)
    ELSE IF value.frac = 0
         THEN Return(value, g)
         ELSE Raise(InvalidArgument, g)

require_non_negative(value, scope, g) ==
    IF is_tensor_object(value)
    THEN Return([value EXCEPT !.asserted = TRUE],
                Emit(g, scope, <<"Assert">>))
    ELSE IF value.floor >= 0
         THEN Return(value, g)
         ELSE Raise(InvalidArgument, g)

(***************************************************************************)
(* tf.name_scope, tf.range, the caller's operation.                        *)
(***************************************************************************)
name_scope(nm, default_name, stack) ==
    Append(stack, IF nm = None THEN default_name ELSE nm)

\* tf.range(lo, hi) on Python integers or tensors: one Range node.
tf_range(lo, hi, scope, g) ==
    [value |-> Range(lo, hi), graph |-> Emit(g, scope, <<"Range">>)]

\* operation(tensor, axes): one invocation, one node named after it.
Invoke(fn, x, axes, scope, g, calls) ==
    [value |-> OpNode(fn, x, axes),
     graph |-> Emit(g, scope, <<fn>>),
     calls |-> Append(calls, [fn |-> fn, x |-> x, axes |-> axes])]

(***************************************************************************)
(* validate_group_ndims                                                    *)
(***************************************************************************)
gen_name_scope(value, nm, stack) ==
    IF is_tensor_object(value)
    THEN name_scope(nm, "validate_group_ndims", stack)
    ELSE stack

\* Mutant: require_positive in place of require_non_negative (zero rejected).
validate_group_ndims_positive(value, nm, stack, g) ==
    LET scope == gen_name_scope(value, nm, stack)
        r == require_int32(value, scope, g)
    IN  IF r.raised # NoError
        THEN r
        ELSE IF ~is_tensor_object(r.value) /\ r.value.floor = 0
        THEN Raise(InvalidArgument, r.graph)
        ELSE require_non_negative(r.value, scope, r.graph)

\* Mutant: the require_non_negative step left out.
validate_group_ndims_int_only(value, nm, stack, g) ==
    LET scope == gen_name_scope(value, nm, stack)
    IN  require_int32(value, scope, g)

\* Mutant: the require_int32 step left out.
validate_group_ndims_sign_only(value, nm, stack, g) ==
    LET scope == gen_name_scope(value, nm, stack)
    IN  require_non_negative(value, scope, g)

validate_group_ndims(value, nm, stack, g) ==
    LET scope == gen_name_scope(value, nm, stack)
        r == require_int32(value, scope, g)
    IN  IF r.raised # NoError
        THEN r
        ELSE require_non_negative(r.value, scope, r.graph)

(***************************************************************************)
(* reduce_group_ndims                                                      *)
(***************************************************************************)
Raise4(err, g, calls) ==
    [raised |-> err, value |-> NoValue, graph |-> g, calls |-> calls]
Return4(v, g, calls) ==
    [raised |-> NoError, value |-> v, graph |-> g, calls |-> calls]

\* Mutant: the two lambdas of tf.cond swapped.
reduce_dynamic_swapped(fn, x, count, scope, g) ==
    LET g1 == Emit(g, scope, <<"Greater">>)
        g2 == Emit(g1, scope, <<"Neg">>)
        r == tf_range(Neg(count), Const(0), scope, g2)
        o == Invoke(fn, x, r.value, scope, r.graph, <<>>)
    IN  Return4(Cond(Greater(count, Const(0)), x, o.value),
                Emit(o.graph, scope, <<"Cond">>), o.calls)

\* lines 78-82: tf.cond(group_ndims > 0, lambda: operation(...), lambda: tensor).
\* tf.cond builds both branches when it is called.
reduce_dynamic(fn, x, count, scope, g) ==
    LET g1 == Emit(g, scope, <<"Greater">>)
        g2 == Emit(g1, scope, <<"Neg">>)
        r == tf_range(Neg(count), Const(0), scope, g2)
        o == Invoke(fn, x, r.value, scope, r.graph, <<>>)
    IN  Return4(Cond(Greater(count, Const(0)), o.value, x),
                Emit(o.graph, scope, <<"Cond">>), o.calls)

\* Mutant: `group_ndims >= 0` in place of `group_ndims > 0`.
reduce_static_ge(fn, x, count, scope, g) ==
    IF count.floor >= 0
    THEN LET r == tf_range(Const(0 - count.floor), Const(0), scope, g)
             o == Invoke(fn, x, r.value, scope, r.graph, <<>>)
         IN  Return4(o.value, o.graph, o.calls)
    ELSE Return4(x, g, <<>>)

\* Mutant: tf.range(0, group_ndims), the first axes instead of the last.
reduce_static_leading(fn, x, count, scope, g) ==
    IF count.floor > 0
    THEN LET r == tf_range(Const(0), Const(count.floor), scope, g)
             o == Invoke(fn, x, r.value, scope, r.graph, <<>>)
         IN  Return4(o.value, o.graph, o.calls)
    ELSE Return4(x, g, <<>>)

\* lines 84-85: if group_ndims > 0: tensor = operation(tensor, tf.range(...)).
reduce_static(fn, x, count, scope, g) ==
    IF count.floor > 0
    THEN LET r == tf_range(Const(0 - count.floor), Const(0), scope, g)
             o == Invoke(fn, x, r.value, scope, r.graph, <<>>)
         IN  Return4(o.value, o.graph, o.calls)
    ELSE Return4(x, g, <<>>)

\* Mutant: the validated count dropped, the caller's count used instead.
reduce_group_ndims_unassigned(fn, x, count, nm, stack, g) ==
    LET v == validate_group_ndims(count, None, stack, g)
    IN  IF v.raised # NoError
        THEN Raise4(v.raised, v.graph, <<>>)
        ELSE LET scope == name_scope(nm, "reduce_group_ndims", stack)
             IN  IF is_tensor_object(count)
                 THEN reduce_dynamic(fn, x, count, scope, v.graph)
                 ELSE reduce_static(fn, x, count, scope, v.graph)

\* Mutant: the count validated after the reduction has been built.
reduce_group_ndims_late(fn, x, count, nm, stack, g) ==
    LET scope == name_scope(nm, "reduce_group_ndims", stack)
        r == IF is_tensor_object(count)
             THEN reduce_dynamic(fn, x, count, scope, g)
             ELSE reduce_static(fn, x, count, scope, g)
        v == validate_group_ndims(count, None, stack, r.graph)
    IN  IF v.raised # NoError
        THEN Raise4(v.raised, v.graph, r.calls)
        ELSE Return4(r.value, v.graph, r.calls)

\* Mutant: is_tensor_object(tensor) in place of is_tensor_object(group_ndims).
reduce_group_ndims_dispatch(fn, x, count, nm, stack, g) ==
    LET v == validate_group_ndims(count, None, stack, g)
    IN  IF v.raised # NoError
        THEN Raise4(v.raised, v.graph, <<>>)
        ELSE LET scope == name_scope(nm, "reduce_group_ndims", stack)
             IN  IF is_tensor_object(x)
                 THEN reduce_dynamic(fn, x, v.value, scope, v.graph)
                 ELSE reduce_static(fn, x, v.value, scope, v.graph)

reduce_group_ndims(fn, x, count, nm, stack, g) ==
    LET v == validate_group_ndims(count, None, stack, g)
    IN  IF v.raised # NoError
        THEN Raise4(v.raised, v.graph, <<>>)
        ELSE LET scope == name_scope(nm, "reduce_group_ndims", stack)
             IN  IF is_tensor_object(v.value)
                 THEN reduce_dynamic(fn, x, v.value, scope, v.graph)
                 ELSE reduce_static(fn, x, v.value, scope, v.graph)

(***************************************************************************)
(* Executing a tensor expression with the runtime value k of the count.    *)
(***************************************************************************)
Ok(v) == [err |-> NoError, val |-> v]
Err(e) == [err |-> e, val |-> NoValue]

RECURSIVE ProdSeq(_)
ProdSeq(s) == IF s = <<>> THEN 1 ELSE Head(s) * ProdSeq(Tail(s))

\* All index tuples of a shape.
Indices(shape) ==
    LET dims == {shape[d] : d \in 1..Len(shape)}
        top == IF dims = {} THEN 0
               ELSE CHOOSE m \in dims : \A n \in dims : n <= m
    IN  {i \in [1..Len(shape) -> 0..top] :
            \A d \in 1..Len(shape) : i[d] < shape[d]}

RECURSIVE Flat(_, _)
\* Row-major offset of index tuple i into shape.
Flat(i, shape) ==
    IF shape = <<>> THEN 0
    ELSE LET n == Len(shape)
         IN  Flat(SubSeq(i, 1, n - 1), SubSeq(shape, 1, n - 1)) * shape[n]
               + i[n]

RECURSIVE Fold(_, _, _)
Fold(fn, a, idx) ==
    IF idx = {} THEN (IF fn = "reduce_sum" THEN 0 ELSE 1)
    ELSE LET i == CHOOSE j \in idx : TRUE
             rest == Fold(fn, a, idx \ {i})
             v == a.data[Flat(i, a.shape) + 1]
         IN  IF fn = "reduce_sum" THEN v + rest ELSE v * rest

RECURSIVE Keep(_, _)
\* The positions 1..n that are not in the set `drop`, ascending.
Keep(n, drop) ==
    IF n = 0 THEN <<>>
    ELSE IF n \in drop THEN Keep(n - 1, drop)
         ELSE Append(Keep(n - 1, drop), n)

\* fn(a, axis=axes): reduce array a over the listed axes (negative axes
\* count from the end); an axis outside the rank is an error.
ReduceAxes(fn, a, axes) ==
    LET rank == Len(a.shape)
        norm == [j \in 1..Len(axes) |->
                    IF axes[j] < 0 THEN axes[j] + rank ELSE axes[j]]
    IN  IF \E j \in 1..Len(axes) : norm[j] < 0 \/ norm[j] >= rank
        THEN Err(InvalidAxis)
        ELSE LET drop == {norm[j] + 1 : j \in 1..Len(axes)}
                 kept == Keep(rank, drop)
                 oshape == [j \in 1..Len(kept) |-> a.shape[kept[j]]]
                 cell(n) ==
                     LET o == CHOOSE o \in Indices(oshape) :
                                  Flat(o, oshape) = n - 1
                     IN  Fold(fn, a,
                              {i \in Indices(a.shape) :
                                  \A j \in 1..Len(kept) : i[kept[j]] = o[j]})
             IN  Ok(Array(oshape, [n \in 1..ProdSeq(oshape) |-> cell(n)]))

RECURSIVE EvalInt(_, _)
EvalInt(e, k) ==
    IF e.kind = "const" THEN Ok(e.n)
    ELSE IF e.kind = "concrete" THEN Ok(e.floor)  \* a Python number
    ELSE IF e.kind = "neg"
    THEN LET r == EvalInt(e.x, k)
         IN  IF r.err # NoError THEN r ELSE Ok(0 - r.val)
    ELSE \* a symbolic count
         IF e.asserted /\ k < 0 THEN Err(RuntimeAssertionViolated) ELSE Ok(k)

EvalAxes(e, k) ==
    LET lo == EvalInt(e.lo, k)
        hi == EvalInt(e.hi, k)
    IN  IF lo.err # NoError THEN lo
        ELSE IF hi.err # NoError THEN hi
        ELSE Ok([i \in 1..(IF hi.val > lo.val THEN hi.val - lo.val ELSE 0)
                    |-> lo.val + i - 1])

RECURSIVE EvalArr(_, _)
EvalArr(e, k) ==
    IF e.kind = "input" THEN Ok(e.arr)
    ELSE IF e.kind = "op"
    THEN LET a == EvalArr(e.x, k)
             ax == EvalAxes(e.axes, k)
         IN  IF a.err # NoError THEN a
             ELSE IF ax.err # NoError THEN ax
             ELSE ReduceAxes(e.fn, a.val, ax.val)
    ELSE \* cond: the predicate first, then the branch it selects
         LET x == EvalInt(e.pred.x, k)
             y == EvalInt(e.pred.y, k)
         IN  IF x.err # NoError THEN x
             ELSE IF y.err # NoError THEN y
             ELSE IF x.val > y.val THEN EvalArr(e.then, k)
             ELSE EvalArr(e.else, k)

(***************************************************************************)
(* The state machine.                                                      *)
(***************************************************************************)
Init ==
    /\ operation \in Operations
    /\ tensor \in Arrays
    /\ group_ndims \in Counts
    /\ name \in Names
    /\ api = "none"
    /\ pc = "start"
    /\ graph = <<>>
    /\ opCalls = <<>>
    /\ ret = NoValue
    /\ exc = NoError
    /\ feed = 0
    /\ out = Ok(NoValue)

\* group_ndims = validate_group_ndims(group_ndims, name)
CallValidate ==
    /\ pc = "start"
    /\ LET r == validate_group_ndims(group_ndims, name, <<>>, graph)
       IN  /\ graph' = r.graph
           /\ ret' = r.value
           /\ exc' = r.raised
           /\ pc' = IF r.raised = NoError THEN "returned" ELSE "raised"
    /\ api' = "validate"
    /\ UNCHANGED <<operation, tensor, group_ndims, name, opCalls, feed, out>>

\* reduce_group_ndims(operation, tensor, group_ndims, name)
CallReduce ==
    /\ pc = "start"
    /\ LET r == reduce_group_ndims(operation, Input(tensor), group_ndims,
                                   name, <<>>, graph)
       IN  /\ graph' = r.graph
           /\ opCalls' = r.calls
           /\ ret' = r.value
           /\ exc' = r.raised
           /\ pc' = IF r.raised = NoError THEN "returned" ELSE "raised"
    /\ api' = "reduce"
    /\ UNCHANGED <<operation, tensor, group_ndims, name, feed, out>>

\* session.run(ret), the symbolic count fed the value k.
Run ==
    /\ pc = "returned"
    /\ api = "reduce" \/ is_tensor_object(ret)
    /\ \E k \in CountRange :
         /\ is_tensor_object(group_ndims) \/ k = 0
         /\ feed' = k
         /\ out' = IF api = "reduce" THEN EvalArr(ret, k) ELSE EvalInt(ret, k)
         /\ pc' = IF out'.err = NoError THEN "ran" ELSE "run_failed"
    /\ UNCHANGED <<operation, tensor, group_ndims, name, api, graph, opCalls,
                   ret, exc>>

Next == CallValidate \/ CallReduce \/ Run

Spec == Init /\ [][Next]_vars

(***************************************************************************)
(* Properties.                                                             *)
(***************************************************************************)
Called(fn) == api = fn /\ pc # "start"
Executed == pc \in {"ran", "run_failed"}
IsConcrete == group_ndims.kind = "concrete"
IsSymbolic == group_ndims.kind = "symbolic"
NonNegativeInteger == IsConcrete /\ group_ndims.frac = 0 /\ group_ndims.floor >= 0
\* The axis list [-g, ..., -1].
LastAxes(g) == [i \in 1..g |-> i - g - 1]
HasNode(ops) == \E i \in 1..Len(graph) : graph[i].op \in ops
ReducerScope == IF name = None THEN "reduce_group_ndims" ELSE name

\* C1: validate_group_ndims of a concrete non-negative integer returns that
\* very count and raises nothing.
C1_ValidateReturnsCount ==
    (Called("validate") /\ NonNegativeInteger)
        => (pc = "returned" /\ exc = NoError /\ ret = group_ndims)

C1_Witness ==
    /\ Called("validate") /\ NonNegativeInteger
    /\ group_ndims.floor = 0 /\ ret = group_ndims

\* C2: validate_group_ndims of a concrete count that is negative or
\* non-integral raises InvalidArgument from the call and returns no value.
C2_ValidateRejectsConcrete ==
    (Called("validate") /\ IsConcrete
        /\ (group_ndims.floor < 0 \/ group_ndims.frac # 0))
        => (pc = "raised" /\ exc = InvalidArgument /\ ret = NoValue)

C2_Witness ==
    /\ Called("validate") /\ IsConcrete
    /\ group_ndims.floor < 0 /\ group_ndims.frac = 0
    /\ pc = "raised" /\ exc = InvalidArgument

\* C3: reduce_group_ndims with the concrete count 0 returns the very array
\* it was given: the operation is never invoked, no node is added to the
\* graph, and executing the result gives the array back.
C3_ZeroIsIdentity ==
    (Called("reduce") /\ IsConcrete
        /\ group_ndims.frac = 0 /\ group_ndims.floor = 0)
        => /\ exc = NoError
           /\ ret = Input(tensor)
           /\ opCalls = <<>>
           /\ graph = <<>>
           /\ pc # "run_failed"
           /\ pc = "ran" => out = Ok(tensor)

C3_Witness ==
    /\ Called("reduce") /\ IsConcrete
    /\ group_ndims.frac = 0 /\ group_ndims.floor = 0
    /\ pc = "ran" /\ out = Ok(tensor) /\ opCalls = <<>>

\* C4: reduce_group_ndims with a concrete count g > 0 on an array of rank
\* >= g invokes the operation exactly once, on the array and the axes
\* [-g, ..., -1], and returns what that invocation returned; executed, it
\* is the array reduced over its last g axes (sum of [[1,2],[3,4]] over
\* the last axis is [3,7]).
C4_PositiveReducesLastAxes ==
    (Called("reduce") /\ NonNegativeInteger /\ group_ndims.floor > 0
        /\ Len(tensor.shape) >= group_ndims.floor)
        => /\ exc = NoError
           /\ Len(opCalls) = 1
           /\ opCalls[1].fn = operation
           /\ opCalls[1].x = Input(tensor)
           /\ EvalAxes(opCalls[1].axes, 0) = Ok(LastAxes(group_ndims.floor))
           /\ ret = OpNode(operation, Input(tensor), opCalls[1].axes)
           /\ pc # "run_failed"
           /\ pc = "ran" =>
                /\ out = ReduceAxes(operation, tensor,
                                    LastAxes(group_ndims.floor))
                /\ (operation = "reduce_sum" /\ group_ndims.floor = 1
                        /\ tensor = Array(<<2, 2>>, <<1, 2, 3, 4>>))
                      => out.val = Array(<<2>>, <<3, 7>>)

C4_Witness ==
    /\ Called("reduce") /\ NonNegativeInteger /\ group_ndims.floor = 1
    /\ operation = "reduce_sum" /\ tensor = Array(<<2, 2>>, <<1, 2, 3, 4>>)
    /\ pc = "ran" /\ out.val = Array(<<2>>, <<3, 7>>)

\* C5: with a symbolic count of integer dtype the call to
\* reduce_group_ndims raises nothing; executing the returned tensor with a
\* negative runtime count always fails, with the assertion's error, and
\* only then: the call itself had returned a value.
C5_NegativeFailsAtExecution ==
    (Called("reduce") /\ IsSymbolic /\ group_ndims.dtype \in IntegerDtypes)
        => /\ pc # "raised"
           /\ exc = NoError
           /\ ret # NoValue
           /\ (Executed /\ feed < 0) =>
                /\ pc = "run_failed"
                /\ out.err = RuntimeAssertionViolated

C5_Witness ==
    /\ Called("reduce") /\ IsSymbolic
    /\ pc = "run_failed" /\ feed < 0 /\ exc = NoError
    /\ out.err = RuntimeAssertionViolated

\* C6: executing the tensor built for a symbolic count with runtime value
\* k >= 0 gives the array itself for k = 0 and the reduction over the axes
\* [-k, ..., -1] for k > 0: what the call with the concrete count k gives.
C6_SymbolicMatchesConcrete ==
    (Called("reduce") /\ IsSymbolic /\ Executed /\ feed >= 0)
        => /\ feed = 0 => out = Ok(tensor)
           /\ feed > 0 => out = ReduceAxes(operation, tensor, LastAxes(feed))
           /\ LET c == reduce_group_ndims(operation, Input(tensor),
                                          ConcreteCount(feed, 0), name,
                                          <<>>, <<>>)
              IN  c.raised = NoError /\ out = EvalArr(c.value, 0)

C6_Witness ==
    /\ Called("reduce") /\ IsSymbolic /\ pc = "ran" /\ feed = 2
    /\ Len(out.val.shape) = Len(tensor.shape) - 2

\* C7: when validate_group_ndims raises for the count, reduce_group_ndims
\* raises that same error, never invokes the operation, adds no reduction
\* or conditional node and returns nothing.
C7_ValidationFirst ==
    LET v == validate_group_ndims(group_ndims, None, <<>>, <<>>)
    IN  (Called("reduce") /\ v.raised # NoError)
            => /\ pc = "raised"
               /\ exc = v.raised
               /\ opCalls = <<>>
               /\ ~HasNode(Operations \cup {"Cond", "Range"})
               /\ ret = NoValue

C7_Witness ==
    /\ Called("reduce") /\ IsConcrete
    /\ group_ndims.floor > 0 /\ group_ndims.frac = 1
    /\ pc = "raised" /\ exc = InvalidArgument /\ opCalls = <<>>

\* C8: validate_group_ndims of a symbolic count raises InvalidArgument from
\* the call when the declared dtype is not an integer one; for an integer
\* dtype it raises nothing and embeds a non-negativity assertion, which
\* fails the execution of the returned count for a negative runtime value.
C8_ValidateSymbolic ==
    (Called("validate") /\ IsSymbolic)
        => IF group_ndims.dtype \in IntegerDtypes
           THEN /\ pc # "raised"
                /\ exc = NoError
                /\ HasNode({"Assert"})
                /\ ret = [group_ndims EXCEPT !.asserted = TRUE]
                /\ Executed => (pc = "run_failed") = (feed < 0)
           ELSE /\ pc = "raised"
                /\ exc = InvalidArgument
                /\ ret = NoValue
                /\ graph = <<>>

C8_Witness ==
    /\ Called("validate") /\ IsSymbolic
    /\ group_ndims.dtype \notin IntegerDtypes
    /\ pc = "raised" /\ exc = InvalidArgument

\* C9: every node a call to reduce_group_ndims inserts, the assertion of
\* the validation step included, was inserted while the reducer's named
\* scope was open.
C9_AllNodesInReducerScope ==
    Called("reduce")
        => \A i \in 1..Len(graph) :
              \E j \in 1..Len(graph[i].scope) :
                  graph[i].scope[j] = ReducerScope

\* C10: validate_group_ndims returns a count of the kind it was given;
\* reduce_group_ndims builds a runtime conditional, holding both branches
\* and invoking the operation exactly once, exactly when the count is
\* symbolic, and no conditional at all when it is concrete.
C10_KindPreserved ==
    /\ (api = "validate" /\ pc = "returned") => ret.kind = group_ndims.kind
    /\ (Called("reduce") /\ exc = NoError) =>
          /\ HasNode({"Cond"}) = IsSymbolic
          /\ (ret.kind = "cond") = IsSymbolic
          /\ IsSymbolic =>
                /\ Len(opCalls) = 1
                /\ ret.then = OpNode(operation, Input(tensor),
                                      opCalls[1].axes)
                /\ ret.else = Input(tensor)

C10_Witness ==
    /\ Called("reduce") /\ IsSymbolic /\ pc = "returned"
    /\ ret.kind = "cond" /\ Len(opCalls) = 1 /\ HasNode({"Cond"})

=============================================================================
